---- MODULE Spec2Model ----
(***************************************************************************)
(* Model of src/src/procedure.ts: invokeProcedure and the plan builders    *)
(* getProcedure / getVarArgsPara / getFixArgsPara / getArguments.          *)
(*                                                                         *)
(* Strings the code inspects character by character (procedure names,     *)
(* argument names, placeholder names, invocation text) are sequences of    *)
(* one-character strings.  Strings the code only passes along (argument    *)
(* values, CGI entries, type tags) are atomic.                             *)
(***************************************************************************)
EXTENDS Integers, Sequences, FiniteSets, TLC

VARIABLES
    procedure,      \* req.params.name
    argObj,         \* argument mapping, in enumeration order: <<[key, value]>>
    cgiObj,         \* CGI mapping, in enumeration order: <<<<key, value>>>>
    filesToUpload,  \* number of uploaded-file descriptors
    options,        \* [doctable, pathAlias, requestValidation]
    pc,             \* position of invokeProcedure
    upload,         \* state of the promise returned by uploadFiles
    uploaded,       \* rows inserted by the upload so far
    para,           \* call plan {sql, bind} returned by getProcedure
    validOperation, \* local variable validOperation
    lob,            \* state of the handle returned by createLob
    result,         \* local variable result
    pageComponents, \* response model built by parse
    error,          \* what invokeProcedure threw
    log,            \* calls made so far, in order
    catalog,        \* rows the catalog holds for the procedure's arguments
    requestValidRes,\* what the validation call returned
    pageContent,    \* text handed to parse
    dbSteps,        \* statements of the envelope the database has run
    raisedAt,       \* statement of the envelope that raised (0: none)
    bound,          \* bindings handed to execute with the envelope
    catalogRes      \* what the catalog query did ("none": not made)

vars == <<procedure, argObj, cgiObj, filesToUpload, options, pc, upload,
          uploaded, para, validOperation, lob, result, pageComponents,
          error, log, catalog, requestValidRes, pageContent, dbSteps,
          raisedAt, bound, catalogRes>>

-----------------------------------------------------------------------------
(* Bounds *)

MaxNameLen == 2     \* length of a procedure name
MaxArgs == 2        \* entries of the argument mapping
MaxVals == 2        \* elements of a multi-valued argument
MaxCatalog == 2     \* rows returned by the catalog lookup
MaxFiles == 1       \* uploaded files

-----------------------------------------------------------------------------
(* Program constants *)

HTBUF_LEN == 63
MAX_IROWS == 100000

-----------------------------------------------------------------------------
(* JavaScript strings and values *)

\* String.prototype.toLowerCase on one character
LowerChar(c) ==
    CASE c = "A" -> "a"
      [] c = "B" -> "b"
      [] OTHER -> c

toLowerCase(s) == [i \in 1..Len(s) |-> LowerChar(s[i])]

\* s.substring(from) with a zero-based index
substringFrom(s, from) == SubSeq(s, from + 1, Len(s))

\* s.substring(from, to) with zero-based indices, to exclusive
substring(s, from, to) == SubSeq(s, from + 1, IF to > Len(s) THEN Len(s) ELSE to)

Undefined == [type |-> "undefined"]
JsString(s) == [type |-> "string", val |-> s]

\* an argument value: a single string or an array of strings
StringValue(s) == [isArray |-> FALSE, items |-> <<s>>]
ArrayValue(a) == [isArray |-> TRUE, items |-> a]

\* JavaScript truthiness of an option that is undefined or a string
Truthy(v) == v.type = "string" /\ Len(v.val) > 0

-----------------------------------------------------------------------------
(* Input domains *)

NameChars == {"!", "a"}

RECURSIVE SeqsUpTo(_, _)
\* all sequences over S of length at most n
SeqsUpTo(S, n) ==
    IF n = 0 THEN {<<>>}
    ELSE LET shorter == SeqsUpTo(S, n - 1)
         IN  shorter \cup {Append(q, x) : q \in shorter, x \in S}

\* req.params.name: a non-empty route parameter
ProcNames == SeqsUpTo(NameChars, MaxNameLen) \ {<<>>}

ArgKeys == {<<"a">>, <<"A">>}
ArgStrings == {<<"x">>, <<"y">>}

ArgValues ==
    {StringValue(s) : s \in ArgStrings}
        \cup {ArrayValue(a) : a \in SeqsUpTo(ArgStrings, MaxVals)}

\* argument mappings: distinct keys, in enumeration order
ArgObjs ==
    {m \in SeqsUpTo([key : ArgKeys, value : ArgValues], MaxArgs) :
        \A i, j \in 1..Len(m) : i # j => m[i].key # m[j].key}

PathAliases ==
    {Undefined}
        \cup {[type |-> "object", alias |-> a, procedure |-> <<"a", "a">>] :
                a \in {<<"a">>, <<"!", "a">>}}

TypeTags == {"VARCHAR2", "PL/SQL TABLE"}

\* rows of all_arguments as the catalog query returns them
CatalogRows == [name : {<<"A">>}, type : TypeTags]
Catalogs == SeqsUpTo(CatalogRows, MaxCatalog)

-----------------------------------------------------------------------------
(* Text and bindings of a call plan *)

BindIn(name, val) ==
    [name |-> name, dir |-> "BIND_IN", type |-> "STRING", val |-> val]

P_PATH == <<"p", "_", "p", "a", "t", "h">>
ARGNAMES == <<"a", "r", "g", "n", "a", "m", "e", "s">>
ARGVALUES == <<"a", "r", "g", "v", "a", "l", "u", "e", "s">>

NoPara == [sql |-> <<>>, bind |-> <<>>]

NoError ==
    [kind |-> "none", origin |-> "none", cgi |-> <<>>, sql |-> <<>>, bind |-> <<>>]

\* mutant: the failure is thrown as a plain Error
RequestErrorPlain(origin) ==
    [kind |-> "Error", origin |-> origin, cgi |-> <<>>, sql |-> <<>>,
     bind |-> <<>>]

RequestError(origin) ==
    [kind |-> "RequestError", origin |-> origin, cgi |-> <<>>, sql |-> <<>>,
     bind |-> <<>>]

-----------------------------------------------------------------------------
(* getArguments *)

RECURSIVE FoldArgTypes(_, _)
\* the loop of getArguments: a later row overwrites an earlier one of the same name
FoldArgTypes(rows, argTypes) ==
    IF rows = <<>> THEN argTypes
    ELSE FoldArgTypes(Tail(rows),
                      (toLowerCase(Head(rows).name) :> Head(rows).type) @@ argTypes)

\* response: what databaseConnection.execute did with the catalog query
getArguments(response) ==
    CASE response.kind = "raise" ->
            [ok |-> FALSE, error |-> RequestError("getArguments.execute")]
      [] response.kind = "malformed" ->
            [ok |-> FALSE, error |-> RequestError("getArguments.result")]
      [] OTHER ->
            [ok |-> TRUE, argTypes |-> FoldArgTypes(response.rows, <<>>)]

\* argTypes[key]
TypeOf(argTypes, key) ==
    IF key \in DOMAIN argTypes THEN argTypes[key] ELSE "undefined"

-----------------------------------------------------------------------------
(* getVarArgsPara *)

RECURSIVE VarArgsLoopOneName(_, _, _)
\* mutant: a multi-valued argument contributes its name once
VarArgsLoopOneName(args, names, values) ==
    IF args = <<>> THEN [names |-> names, values |-> values]
    ELSE VarArgsLoopOneName(Tail(args), Append(names, Head(args).key),
                            values \o Head(args).value.items)

RECURSIVE VarArgsLoop(_, _, _)
VarArgsLoop(args, names, values) ==
    IF args = <<>> THEN [names |-> names, values |-> values]
    ELSE LET key == Head(args).key
             value == Head(args).value
         IN  IF ~value.isArray
             THEN VarArgsLoop(Tail(args), Append(names, key),
                              Append(values, value.items[1]))
             ELSE VarArgsLoop(Tail(args),
                              names \o [i \in 1..Len(value.items) |-> key],
                              values \o value.items)

\* mutant: the arrays are bound under the names of the CGI arrays
getVarArgsParaCgiNames(proc, args) ==
    LET flat == VarArgsLoop(args, <<>>, <<>>)
    IN  [sql |-> substringFrom(proc, 1)
                    \o <<"(", ":">> \o <<"c", "g", "i", "n", "a", "m", "e", "s">>
                    \o <<",", " ", ":">>
                    \o <<"c", "g", "i", "v", "a", "l", "u", "e", "s">>
                    \o <<")", ";">>,
         bind |-> <<BindIn(<<"c", "g", "i", "n", "a", "m", "e", "s">>,
                           ArrayValue(flat.names)),
                    BindIn(<<"c", "g", "i", "v", "a", "l", "u", "e", "s">>,
                           ArrayValue(flat.values))>>]

getVarArgsPara(proc, args) ==
    LET flat == VarArgsLoop(args, <<>>, <<>>)
    IN  [sql |-> substringFrom(proc, 1)
                    \o <<"(", ":">> \o ARGNAMES \o <<",", " ", ":">> \o ARGVALUES
                    \o <<")", ";">>,
         bind |-> <<BindIn(ARGNAMES, ArrayValue(flat.names)),
                    BindIn(ARGVALUES, ArrayValue(flat.values))>>]

-----------------------------------------------------------------------------
(* getFixArgsPara *)

\* the value or array of values bound for one argument
FixArgValue(argTypes, key, value) ==
    IF value.isArray \/ TypeOf(argTypes, key) = "PL/SQL TABLE"
    THEN ArrayValue(value.items)
    ELSE StringValue(value.items[1])

RECURSIVE FixArgsLoop(_, _, _, _, _)
FixArgsLoop(args, argTypes, index, sql, bind) ==
    IF args = <<>> THEN [sql |-> sql \o <<")", ";">>, bind |-> bind]
    ELSE LET key == Head(args).key
             value == Head(args).value
             parameterName == <<"p", "_">> \o key
             sep == IF index > 0 THEN <<",">> ELSE <<>>
         IN  FixArgsLoop(Tail(args), argTypes, index + 1,
                         sql \o sep \o key \o <<"=", ">", ":">> \o parameterName,
                         Append(bind,
                                BindIn(parameterName,
                                       FixArgValue(argTypes, key, value))))

getFixArgsPara(proc, args, argTypes) ==
    FixArgsLoop(args, argTypes, 0, proc \o <<"(">>, <<>>)

-----------------------------------------------------------------------------
(* getProcedure *)

IsAlias(proc, opts) ==
    opts.pathAlias.type = "object" /\ opts.pathAlias.alias = proc

IsVarArgs(proc) == substring(proc, 0, 1) = <<"!">>

\* mutant: the '!' test comes before the alias test
ModeOfVarArgsFirst(proc, opts) ==
    IF IsVarArgs(proc) THEN "variable"
    ELSE IF IsAlias(proc, opts) THEN "alias"
    ELSE "fixed"

\* which branch of getProcedure a request takes
ModeOf(proc, opts) ==
    IF IsAlias(proc, opts) THEN "alias"
    ELSE IF IsVarArgs(proc) THEN "variable"
    ELSE "fixed"

\* mutant: the binding is entered under the name of the parameter
AliasParaPathBind(proc, opts) ==
    [sql |-> opts.pathAlias.procedure
                \o <<"(">> \o P_PATH \o <<"=", ">", ":">> \o P_PATH \o <<")", ";">>,
     bind |-> <<BindIn(<<"p", "a", "t", "h">>, StringValue(proc))>>]

AliasPara(proc, opts) ==
    [sql |-> opts.pathAlias.procedure
                \o <<"(">> \o P_PATH \o <<"=", ">", ":">> \o P_PATH \o <<")", ";">>,
     bind |-> <<BindIn(P_PATH, StringValue(proc))>>]

\* pc is where invokeProcedure stands; getProcedure runs when pc = "plan"
getProcedure(proc, args, opts, response) ==
    CASE ModeOf(proc, opts) = "alias" ->
            [ok |-> TRUE, para |-> AliasPara(proc, opts)]
      [] ModeOf(proc, opts) = "variable" ->
            [ok |-> TRUE, para |-> getVarArgsPara(proc, args)]
      [] OTHER ->
            LET types == getArguments(response)
            IN  IF types.ok
                THEN [ok |-> TRUE,
                      para |-> getFixArgsPara(proc, args, types.argTypes)]
                ELSE [ok |-> FALSE, error |-> types.error]

\* what the catalog query can do: raise, return something malformed, or
\* return the rows of the catalog
CatalogResponses(rows) ==
    {[kind |-> "raise", rows |-> <<>>], [kind |-> "malformed", rows |-> <<>>],
     [kind |-> "ok", rows |-> rows]}

-----------------------------------------------------------------------------
(* The invocation envelope *)

K_cgicount == <<"c", "g", "i", "c", "o", "u", "n", "t">>
K_cginames == <<"c", "g", "i", "n", "a", "m", "e", "s">>
K_cgivalues == <<"c", "g", "i", "v", "a", "l", "u", "e", "s">>
K_htbuflen == <<"h", "t", "b", "u", "f", "l", "e", "n">>
K_fileType == <<"f", "i", "l", "e", "T", "y", "p", "e">>
K_fileSize == <<"f", "i", "l", "e", "S", "i", "z", "e">>
K_fileBlob == <<"f", "i", "l", "e", "B", "l", "o", "b">>
K_lines == <<"l", "i", "n", "e", "s">>
K_irows == <<"i", "r", "o", "w", "s">>

\* Object.keys(cgiObj) and Object.values(cgiObj)
ObjectKeys(cgi) == [i \in 1..Len(cgi) |-> cgi[i][1]]
ObjectValues(cgi) == [i \in 1..Len(cgi) |-> cgi[i][2]]

\* the bind object of invokeProcedure, in property order
EnvelopeBind(cgi) ==
    <<[name |-> K_cgicount, dir |-> "BIND_IN", type |-> "NUMBER",
       val |-> Len(cgi)],
      [name |-> K_cginames, dir |-> "BIND_IN", type |-> "STRING",
       val |-> ObjectKeys(cgi)],
      [name |-> K_cgivalues, dir |-> "BIND_IN", type |-> "STRING",
       val |-> ObjectValues(cgi)],
      [name |-> K_htbuflen, dir |-> "BIND_IN", type |-> "NUMBER",
       val |-> HTBUF_LEN],
      [name |-> K_fileType, dir |-> "BIND_OUT", type |-> "STRING"],
      [name |-> K_fileSize, dir |-> "BIND_OUT", type |-> "NUMBER"],
      [name |-> K_fileBlob, dir |-> "BIND_INOUT", type |-> "BLOB",
       val |-> "fileBlob"],
      [name |-> K_lines, dir |-> "BIND_OUT", type |-> "STRING",
       maxSize |-> HTBUF_LEN * 2, maxArraySize |-> MAX_IROWS],
      [name |-> K_irows, dir |-> "BIND_INOUT", type |-> "NUMBER",
       val |-> MAX_IROWS]>>

RECURSIVE ObjectAssign(_, _)
\* Object.assign(target, source): a source entry replaces the target entry of
\* the same name in place, a new name is appended
ObjectAssign(target, source) ==
    IF source = <<>> THEN target
    ELSE LET e == Head(source)
             hit == {i \in 1..Len(target) : target[i].name = e.name}
             merged == IF hit = {} THEN Append(target, e)
                       ELSE [i \in 1..Len(target) |->
                                IF i \in hit THEN e ELSE target[i]]
         IN  ObjectAssign(merged, Tail(source))

\* mutant: the page is retrieved before the download is looked for
getProcedureSQLPageFirst(sql) ==
    <<[stmt |-> "dbms_session.modify_package_state", text |-> <<>>],
      [stmt |-> "owa.init_cgi_env", text |-> <<>>],
      [stmt |-> "htp.init", text |-> <<>>],
      [stmt |-> "htp.HTBUF_LEN", text |-> <<>>],
      [stmt |-> "procedure", text |-> sql],
      [stmt |-> "owa.get_page", text |-> <<>>],
      [stmt |-> "wpg_docload", text |-> <<>>]>>

\* the statements of the PL/SQL block, in program order; text is the call plan's
\* invocation text where the block interpolates it
getProcedureSQL(sql) ==
    <<[stmt |-> "dbms_session.modify_package_state", text |-> <<>>],
      [stmt |-> "owa.init_cgi_env", text |-> <<>>],
      [stmt |-> "htp.init", text |-> <<>>],
      [stmt |-> "htp.HTBUF_LEN", text |-> <<>>],
      [stmt |-> "procedure", text |-> sql],
      [stmt |-> "wpg_docload", text |-> <<>>],
      [stmt |-> "owa.get_page", text |-> <<>>]>>

ProcedureError(origin, cgi, plan) ==
    [kind |-> "ProcedureError", origin |-> origin, cgi |-> cgi, sql |-> plan.sql,
     bind |-> plan.bind]

\* mutant: the error of the database is rethrown as it is
throwErrorRaw(origin, plan, cgi) ==
    [kind |-> "raw", origin |-> origin, cgi |-> <<>>, sql |-> <<>>, bind |-> <<>>]

\* throwError(error, para, cgiObj, trace)
throwError(origin, plan, cgi) == ProcedureError(origin, cgi, plan)

\* an error of a collaborator that invokeProcedure lets through unchanged
Raised(origin) ==
    [kind |-> "raw", origin |-> origin, cgi |-> <<>>, sql |-> <<>>, bind |-> <<>>]

\* throw new Error('Error during the validation of the procedure ...')
ValidationError ==
    [kind |-> "Error", origin |-> "validation", cgi |-> <<>>, sql |-> <<>>,
     bind |-> <<>>]

-----------------------------------------------------------------------------
(* Values the collaborators hand back *)

Null == [type |-> "null"]
Number(n) == [type |-> "number", val |-> n]

\* requestValidRes: outBinds may be missing, ret may be missing
ValidationResponses ==
    {[kind |-> "raise", outBinds |-> Undefined],
     [kind |-> "ok", outBinds |-> Undefined]}
        \cup {[kind |-> "ok", outBinds |-> [type |-> "object", ret |-> r]] :
                r \in {Undefined, Number(0), Number(1), Number(2)}}

\* mutant: any non-zero ret makes the request valid
ValidationResultTruthy(res) ==
    /\ res.outBinds.type = "object"
    /\ res.outBinds.ret.type = "number"
    /\ res.outBinds.ret.val # 0

\* requestValidRes.outBinds && requestValidRes.outBinds.ret
\*     ? requestValidRes.outBinds.ret === 1 : false
ValidationResult(res) ==
    IF res.outBinds.type = "object"
           /\ res.outBinds.ret.type = "number" /\ res.outBinds.ret.val # 0
    THEN res.outBinds.ret.val = 1
    ELSE FALSE

PageLines == <<"Status: 200\n", "\n", "page">>

\* the file-download out-binds: no download, or a binary download
Downloads ==
    {[fileType |-> Null, fileSize |-> Null, fileBlob |-> Null],
     [fileType |-> JsString("B"), fileSize |-> Number(4),
      fileBlob |-> [type |-> "lob"]]}

RowCounts == {MAX_IROWS - 1, MAX_IROWS, MAX_IROWS + 1}

ExecuteResult(lines, irows, download) ==
    [type |-> "object",
     outBinds |-> [lines |-> lines, irows |-> irows,
                   fileType |-> download.fileType,
                   fileSize |-> download.fileSize,
                   fileBlob |-> download.fileBlob]]

\* what databaseConnection.execute can do with the envelope: a statement of
\* the block raises, the call resolves to nothing, or it resolves to out-binds
ExecuteResponses(statements) ==
    {[kind |-> "raise", at |-> i, result |-> Undefined] :
        i \in 1..Len(statements)}
        \cup {[kind |-> "ok", at |-> Len(statements), result |-> Undefined]}
        \cup {[kind |-> "ok", at |-> Len(statements),
               result |-> ExecuteResult(PageLines, Number(n), d)] :
                n \in RowCounts, d \in Downloads}

\* mutant: the denial carries the page of the procedure
DenialResultPage ==
    ExecuteResult(PageLines, Undefined,
                  [fileType |-> Null, fileSize |-> Null, fileBlob |-> Null])

\* the result invokeProcedure makes up for a request that is not valid
DenialResult ==
    ExecuteResult(<<"No access to this.">>, Undefined,
                  [fileType |-> Null, fileSize |-> Null, fileBlob |-> Null])

RECURSIVE Join(_)
\* lines.join('')
Join(lines) == IF lines = <<>> THEN "" ELSE Head(lines) \o Join(Tail(lines))

\* mutant: the ceiling itself is refused
TooManyRowsInclusive(res) ==
    res.outBinds.irows.type = "number" /\ res.outBinds.irows.val >= MAX_IROWS

\* result.outBinds.irows > MAX_IROWS
TooManyRows(res) ==
    res.outBinds.irows.type = "number" /\ res.outBinds.irows.val > MAX_IROWS

NoPage == [type |-> "undefined"]

-----------------------------------------------------------------------------
(* uploadFiles *)

\* the call itself: it throws, or it returns with the inserts still to be made
uploadFilesCall == {"throws", "pending"}

\* the failure the upload raises
uploadFilesError(cgi) == ProcedureError("uploadFiles", cgi, NoPara)

\* one row is inserted for one more file
UploadInsert ==
    /\ upload = "running"
    /\ uploaded < filesToUpload
    /\ uploaded' = uploaded + 1
    /\ UNCHANGED <<procedure, argObj, cgiObj, filesToUpload, options, pc, upload,
                   para, validOperation, lob, result, pageComponents, error, log,
                   catalog, requestValidRes, pageContent, dbSteps, raisedAt, bound,
                   catalogRes>>

\* every file has its row
UploadResolve ==
    /\ upload = "running"
    /\ uploaded = filesToUpload
    /\ upload' = "done"
    /\ UNCHANGED <<procedure, argObj, cgiObj, filesToUpload, options, pc,
                   uploaded, para, validOperation, lob, result, pageComponents,
                   error, log, catalog, requestValidRes, pageContent, dbSteps,
          raisedAt, bound, catalogRes>>

\* an insert fails
UploadReject ==
    /\ upload = "running"
    /\ upload' = "failed"
    /\ UNCHANGED <<procedure, argObj, cgiObj, filesToUpload, options, pc,
                   uploaded, para, validOperation, lob, result, pageComponents,
                   error, log, catalog, requestValidRes, pageContent, dbSteps,
          raisedAt, bound, catalogRes>>

-----------------------------------------------------------------------------
(* invokeProcedure *)

\* mutant: the length of the table name is not looked at
HasDoctableAnyString(opts) == opts.doctable.type = "string"

\* typeof options.doctable === 'string' && options.doctable.length > 0
HasDoctable(opts) == opts.doctable.type = "string" /\ Len(opts.doctable.val) > 0

\* 1) UPLOAD FILES
UploadFiles ==
    /\ pc = "upload"
    /\ IF HasDoctable(options)
       THEN /\ log' = Append(log, "uploadFiles")
            /\ \E outcome \in uploadFilesCall :
                  IF outcome = "throws"
                  THEN /\ pc' = "failed"
                       /\ error' = uploadFilesError(cgiObj)
                       /\ upload' = "failed"
                  ELSE /\ pc' = "plan"
                       /\ upload' = "running"
                       /\ error' = error
       ELSE /\ pc' = "plan"
            /\ UNCHANGED <<log, upload, error>>
    /\ UNCHANGED <<procedure, argObj, cgiObj, filesToUpload, options, uploaded,
                   para, validOperation, lob, result, pageComponents, catalog,
                   requestValidRes, pageContent, dbSteps, raisedAt, bound,
                   catalogRes>>

\* 2) GET SQL STATEMENT AND ARGUMENTS
GetProcedure ==
    /\ pc = "plan"
    /\ \E response \in CatalogResponses(catalog) :
          LET plan == getProcedure(procedure, argObj, options, response)
              called == IF ModeOf(procedure, options) = "fixed"
                        THEN <<"getProcedure", "getArguments">>
                        ELSE <<"getProcedure">>
          IN  /\ catalogRes' = IF ModeOf(procedure, options) = "fixed"
                                THEN response.kind ELSE "none"
              /\ log' = log \o called
              /\ IF plan.ok
                 THEN /\ para' = plan.para
                      /\ pc' = "validate"
                      /\ error' = error
                 ELSE /\ para' = para
                      /\ pc' = "failed"
                      /\ error' = plan.error
    /\ UNCHANGED <<procedure, argObj, cgiObj, filesToUpload, options, upload,
                   uploaded, validOperation, lob, result, pageComponents, catalog,
                   requestValidRes, pageContent, dbSteps, raisedAt, bound>>

\* 3) Validate Procedure
ValidateProcedure ==
    /\ pc = "validate"
    /\ IF Truthy(options.requestValidation)
       THEN /\ log' = Append(log, "validate")
            /\ \E res \in ValidationResponses :
                  /\ requestValidRes' = res
                  /\ IF res.kind = "raise"
                     THEN /\ pc' = "failed"
                          /\ error' = ValidationError
                          /\ validOperation' = validOperation
                     ELSE /\ pc' = "createLob"
                          /\ error' = error
                          /\ validOperation' = ValidationResult(res)
       ELSE /\ validOperation' = TRUE
            /\ pc' = "createLob"
            /\ UNCHANGED <<log, requestValidRes, error>>
    /\ UNCHANGED <<procedure, argObj, cgiObj, filesToUpload, options, upload,
                   uploaded, para, lob, result, pageComponents, catalog,
                   pageContent, dbSteps, raisedAt, bound,
                   catalogRes>>

\* mutant: a request that is not valid gets no handle
CreateLobIfValid ==
    /\ pc = "createLob"
    /\ log' = IF validOperation THEN Append(log, "createLob") ELSE log
    /\ \/ /\ lob' = IF validOperation THEN "open" ELSE lob
          /\ pc' = "execute"
          /\ error' = error
       \/ /\ validOperation
          /\ lob' = lob
          /\ pc' = "failed"
          /\ error' = Raised("createLob")
    /\ UNCHANGED <<procedure, argObj, cgiObj, filesToUpload, options, upload,
                   uploaded, para, validOperation, result, pageComponents,
                   catalog, requestValidRes, pageContent, dbSteps, raisedAt,
                   bound, catalogRes>>

\* const fileBlob = await databaseConnection.createLob(oracledb.BLOB)
CreateLob ==
    /\ pc = "createLob"
    /\ log' = Append(log, "createLob")
    /\ \/ /\ lob' = "open"
          /\ pc' = "execute"
          /\ error' = error
       \/ /\ lob' = lob
          /\ pc' = "failed"
          /\ error' = Raised("createLob")
    /\ UNCHANGED <<procedure, argObj, cgiObj, filesToUpload, options, upload,
                   uploaded, para, validOperation, result, pageComponents,
                   catalog, requestValidRes, pageContent, dbSteps, raisedAt, bound,
                   catalogRes>>

\* 4) EXECUTE PROCEDURE
ExecuteProcedure ==
    /\ pc = "execute"
    /\ LET sqlStatement == getProcedureSQL(para.sql)
       IN  IF validOperation = TRUE
           THEN /\ log' = Append(log, "execute")
                /\ \E res \in ExecuteResponses(sqlStatement) :
                      /\ dbSteps' = SubSeq(sqlStatement, 1, res.at)
                      /\ raisedAt' = IF res.kind = "raise" THEN res.at ELSE 0
                      /\ bound' = ObjectAssign(EnvelopeBind(cgiObj), para.bind)
                      /\ IF res.kind = "raise"
                         THEN /\ pc' = "failed"
                              /\ error' = throwError("execute", para, cgiObj)
                              /\ result' = result
                         ELSE /\ pc' = "process"
                              /\ error' = error
                              /\ result' = res.result
           ELSE /\ result' = DenialResult
                /\ pc' = "process"
                /\ UNCHANGED <<log, dbSteps, raisedAt, bound, error>>
    /\ UNCHANGED <<procedure, argObj, cgiObj, filesToUpload, options, upload,
                   uploaded, para, validOperation, lob, pageComponents, catalog,
                   requestValidRes, pageContent, catalogRes>>

\* 5) PROCESS RESULTS
ProcessResults ==
    /\ pc = "process"
    /\ IF result.type = "undefined"
       THEN /\ pc' = "failed"
            /\ error' = throwError("result", para, cgiObj)
            /\ pageContent' = pageContent
       ELSE IF TooManyRows(result)
       THEN /\ pc' = "failed"
            /\ error' = throwError("irows", para, cgiObj)
            /\ pageContent' = pageContent
       ELSE /\ pc' = "parse"
            /\ error' = error
            /\ pageContent' = Join(result.outBinds.lines)
    /\ UNCHANGED <<procedure, argObj, cgiObj, filesToUpload, options, upload,
                   uploaded, para, validOperation, lob, result, pageComponents,
                   log, catalog, requestValidRes, dbSteps, raisedAt, bound,
                   catalogRes>>

\* cgiObj.SERVER_SOFTWARE
ServerSoftware(cgi) ==
    LET hit == {i \in 1..Len(cgi) : cgi[i][1] = "SERVER_SOFTWARE"}
    IN  IF hit = {} THEN Undefined ELSE JsString(cgi[CHOOSE i \in hit : TRUE][2])

\* 6) PARSE PAGE
ParsePage ==
    /\ pc = "parse"
    /\ log' = Append(log, "parse")
    /\ \/ /\ pageComponents' =
                [type |-> "object",
                 head |-> [server |-> ServerSoftware(cgiObj)],
                 file |-> [fileType |-> result.outBinds.fileType,
                           fileSize |-> result.outBinds.fileSize,
                           fileBlob |-> result.outBinds.fileBlob]]
          /\ pc' = IF result.outBinds.fileBlob # Null THEN "stream" ELSE "send"
          /\ error' = error
       \/ /\ pageComponents' = pageComponents
          /\ pc' = "failed"
          /\ error' = Raised("parse")
    /\ UNCHANGED <<procedure, argObj, cgiObj, filesToUpload, options, upload,
                   uploaded, para, validOperation, lob, result, catalog,
                   requestValidRes, pageContent, dbSteps, raisedAt, bound,
                   catalogRes>>

\* await streamToBuffer(result.outBinds.fileBlob)
StreamToBuffer ==
    /\ pc = "stream"
    /\ log' = Append(log, "streamToBuffer")
    /\ \/ /\ pageComponents' =
                [pageComponents EXCEPT !.file.fileBlob = [type |-> "buffer"]]
          /\ pc' = "send"
          /\ error' = error
       \/ /\ pageComponents' = pageComponents
          /\ pc' = "failed"
          /\ error' = Raised("streamToBuffer")
    /\ UNCHANGED <<procedure, argObj, cgiObj, filesToUpload, options, upload,
                   uploaded, para, validOperation, lob, result, catalog,
                   requestValidRes, pageContent, dbSteps, raisedAt, bound,
                   catalogRes>>

\* 7) SEND THE RESPONSE
SendResponse ==
    /\ pc = "send"
    /\ log' = Append(log, "send")
    /\ \/ /\ pc' = "close"
          /\ error' = error
       \/ /\ pc' = "failed"
          /\ error' = Raised("send")
    /\ UNCHANGED <<procedure, argObj, cgiObj, filesToUpload, options, upload,
                   uploaded, para, validOperation, lob, result, pageComponents,
                   catalog, requestValidRes, pageContent, dbSteps, raisedAt, bound,
                   catalogRes>>

\* 8) CLEANUP
Cleanup ==
    /\ pc = "close"
    /\ log' = Append(log, "close")
    /\ \/ /\ lob' = "closed"
          /\ pc' = "done"
          /\ error' = error
       \/ /\ lob' = lob
          /\ pc' = "failed"
          /\ error' = Raised("close")
    /\ UNCHANGED <<procedure, argObj, cgiObj, filesToUpload, options, upload,
                   uploaded, para, validOperation, result, pageComponents,
                   catalog, requestValidRes, pageContent, dbSteps, raisedAt, bound,
                   catalogRes>>

-----------------------------------------------------------------------------
(* Requests *)

ReqProcNames == {<<"a">>, <<"!", "a">>}

ReqArgObjs ==
    {<<>>,
     <<[key |-> <<"a">>, value |-> StringValue(<<"x">>)],
       [key |-> <<"A">>, value |-> ArrayValue(<<<<"x">>, <<"y">>>>)]>>}

ReqPathAliases ==
    {Undefined,
     [type |-> "object", alias |-> <<"a">>, procedure |-> <<"a", "a">>]}

Doctables == {Undefined, JsString(<<>>), JsString(<<"d">>)}

RequestValidations == {Undefined, JsString(<<>>), JsString(<<"v">>)}

CgiObjs ==
    {<<<<"SERVER_SOFTWARE", "web_plsql">>>>,
     <<<<"REQUEST_METHOD", "GET">>, <<"SERVER_SOFTWARE", "web_plsql">>>>}

ReqCatalogs == {<<>>, <<[name |-> <<"A">>, type |-> "PL/SQL TABLE"]>>}

\* the locals of invokeProcedure on entry
Entered ==
    /\ upload = "idle"
    /\ uploaded = 0
    /\ para = NoPara
    /\ validOperation = FALSE
    /\ lob = "none"
    /\ result = Undefined
    /\ pageComponents = NoPage
    /\ error = NoError
    /\ log = <<>>
    /\ requestValidRes = [kind |-> "none", outBinds |-> Undefined]
    /\ pageContent = ""
    /\ dbSteps = <<>>
    /\ raisedAt = 0
    /\ bound = <<>>
    /\ catalogRes = "none"

Init ==
    /\ procedure \in ReqProcNames
    /\ argObj \in ReqArgObjs
    /\ cgiObj \in CgiObjs
    /\ filesToUpload \in 0..MaxFiles
    /\ options \in [doctable : Doctables, pathAlias : ReqPathAliases,
                    requestValidation : RequestValidations]
    /\ catalog \in ReqCatalogs
    /\ pc = "upload"
    /\ Entered

Next ==
    \/ UploadFiles
    \/ UploadInsert
    \/ UploadResolve
    \/ UploadReject
    \/ GetProcedure
    \/ ValidateProcedure
    \/ CreateLob
    \/ ExecuteProcedure
    \/ ProcessResults
    \/ ParsePage
    \/ StreamToBuffer
    \/ SendResponse
    \/ Cleanup

Spec == Init /\ [][Next]_vars

\* plan building alone: getProcedure applied to every name, argument mapping,
\* alias configuration and catalog within the bounds
PlanInit ==
    /\ procedure \in ProcNames
    /\ argObj \in ArgObjs
    /\ cgiObj = <<<<"SERVER_SOFTWARE", "web_plsql">>>>
    /\ filesToUpload = 0
    /\ options \in [doctable : {Undefined}, pathAlias : PathAliases,
                    requestValidation : {Undefined}]
    /\ catalog \in Catalogs
    /\ pc = "plan"
    /\ Entered

PlanNext == GetProcedure

PlanSpec == PlanInit /\ [][PlanNext]_vars

-----------------------------------------------------------------------------
(* Properties *)

\* the call has been made
Called(name) == \E i \in DOMAIN log : log[i] = name

Terminated == pc \in {"done", "failed"}

\* position of a stage in the pipeline upload, plan, invoke, parse, send
StageRank(name) ==
    CASE name = "uploadFiles" -> 1
      [] name \in {"getProcedure", "getArguments"} -> 2
      [] name \in {"validate", "createLob", "execute"} -> 3
      [] name \in {"parse", "streamToBuffer"} -> 4
      [] OTHER -> 5

\* C1: the stages of one request run strictly one after the other: the upload
\* has completed before plan building starts, plan building before invocation,
\* invocation before parse, parse before send; no later stage starts while
\* an earlier one is still in flight.
C1_StagesSequential ==
    /\ \A i, j \in DOMAIN log : i < j => StageRank(log[i]) <= StageRank(log[j])
    /\ (HasDoctable(options) /\ filesToUpload > 0 /\ Called("getProcedure")) =>
          upload \in {"done", "failed"}

\* C2: no terminated request leaves a large-object handle that was acquired
\* and not released.
C2_LobReleased == Terminated => lob # "open"

\* the validation call resolved and its result is false
Denied == requestValidRes.kind = "ok" /\ validOperation = FALSE

\* C3: when the configured validation resolves to false, the envelope is never
\* executed, invokeProcedure raises nothing of its own (the request fails only
\* if createLob, parse, send or close raises), the text handed to the parser is
\* exactly the denial text and no file payload is attached.
C3_DenialResponse ==
    Denied =>
        /\ ~Called("execute")
        /\ dbSteps = <<>>
        /\ error.kind \in {"none", "raw"}
        /\ pc = "failed" => error.origin \in {"createLob", "parse", "send", "close"}
        /\ pc = "done" => error = NoError
        /\ Called("parse") => pageContent = "No access to this."
        /\ ~Called("streamToBuffer")
        /\ pageComponents.type = "object" =>
              /\ pageComponents.file.fileBlob = Null
              /\ pageComponents.file.fileType = Null
              /\ pageComponents.file.fileSize = Null

C3_Witness ==
    /\ Denied
    /\ requestValidRes.outBinds.type = "object"
    /\ requestValidRes.outBinds.ret = Number(0)
    /\ pc = "done"
    /\ Called("send")

\* the text of the alias plan for a target procedure
AliasText(target) ==
    target \o <<"(", "p", "_", "p", "a", "t", "h", "=", ">", ":",
                "p", "_", "p", "a", "t", "h", ")", ";">>

\* C4: a name equal to the configured alias always gets the alias plan, with
\* the single in-binding p_path holding the name, and no catalog lookup,
\* whether or not the name starts with '!' and whatever the arguments; any
\* other name never gets the alias plan.
C4_AliasWins ==
    (pc # "plan" /\ options.pathAlias.type = "object") =>
        IF options.pathAlias.alias = procedure
        THEN /\ pc = "validate"
             /\ para.sql = AliasText(options.pathAlias.procedure)
             /\ para.bind =
                   <<[name |-> <<"p", "_", "p", "a", "t", "h">>,
                      dir |-> "BIND_IN", type |-> "STRING",
                      val |-> [isArray |-> FALSE, items |-> <<procedure>>]]>>
             /\ log = <<"getProcedure">>
        ELSE /\ para.sql # AliasText(options.pathAlias.procedure)
             /\ \A i \in DOMAIN para.bind :
                   para.bind[i].name # <<"p", "_", "p", "a", "t", "h">>

C4_Witness ==
    /\ pc = "validate"
    /\ options.pathAlias.type = "object"
    /\ procedure = <<"!", "a">>
    /\ options.pathAlias.alias = procedure
    /\ Len(argObj) = 2

\* the request takes the fixed-argument branch and its plan has been built
FixedPlanBuilt ==
    /\ pc = "validate"
    /\ ~(options.pathAlias.type = "object" /\ options.pathAlias.alias = procedure)
    /\ procedure[1] # "!"

\* the type the catalog declares for an argument, names compared without case
DeclaredType(key) ==
    LET hits == {i \in 1..Len(catalog) :
                    toLowerCase(catalog[i].name) = toLowerCase(key)}
    IN  IF hits = {} THEN "undefined"
        ELSE catalog[CHOOSE i \in hits : \A k \in hits : k <= i].type

\* C5: in fixed-argument mode a single string for a parameter that is not
\* table-typed is bound as that string; a multi-valued argument, or one for a
\* table-typed parameter, is bound as the array of its values in input order;
\* for every letter case of the argument name.
C5_FixedBinding ==
    FixedPlanBuilt =>
        /\ Len(para.bind) = Len(argObj)
        /\ \A j \in 1..Len(argObj) :
              LET value == argObj[j].value
              IN  para.bind[j].val =
                    IF ~value.isArray
                           /\ DeclaredType(argObj[j].key) # "PL/SQL TABLE"
                    THEN [isArray |-> FALSE, items |-> <<value.items[1]>>]
                    ELSE [isArray |-> TRUE, items |-> value.items]

\* the request takes the variable-argument branch and its plan has been built
VarPlanBuilt ==
    /\ pc = "validate"
    /\ ~(options.pathAlias.type = "object" /\ options.pathAlias.alias = procedure)
    /\ procedure[1] = "!"

\* number of (name, value) pairs an argument contributes
PairCount(j) ==
    IF argObj[j].value.isArray THEN Len(argObj[j].value.items) ELSE 1

RECURSIVE PairsBefore(_)
\* number of pairs contributed by the arguments before the j-th
PairsBefore(j) == IF j <= 1 THEN 0 ELSE PairsBefore(j - 1) + PairCount(j - 1)

\* C6: in variable-argument mode the plan calls the name without its first
\* character and binds argnames and argvalues, two arrays of equal length
\* whose pairs are the arguments in key order, a multi-valued argument
\* contributing one pair per value, in occurrence order, under the same name.
C6_VarArgsFlatten ==
    VarPlanBuilt =>
        LET names == para.bind[1].val.items
            values == para.bind[2].val.items
            total == PairsBefore(Len(argObj) + 1)
        IN  /\ para.sql =
                  SubSeq(procedure, 2, Len(procedure))
                      \o <<"(", ":", "a", "r", "g", "n", "a", "m", "e", "s", ",",
                           " ", ":", "a", "r", "g", "v", "a", "l", "u", "e", "s",
                           ")", ";">>
            /\ Len(para.bind) = 2
            /\ para.bind[1].name = <<"a", "r", "g", "n", "a", "m", "e", "s">>
            /\ para.bind[2].name = <<"a", "r", "g", "v", "a", "l", "u", "e", "s">>
            /\ para.bind[1].val.isArray /\ para.bind[2].val.isArray
            /\ Len(names) = total /\ Len(values) = total
            /\ \A j \in 1..Len(argObj) : \A i \in 1..PairCount(j) :
                  /\ names[PairsBefore(j) + i] = argObj[j].key
                  /\ values[PairsBefore(j) + i] = argObj[j].value.items[i]

C6_Witness ==
    /\ VarPlanBuilt
    /\ Len(argObj) = 2
    /\ ~argObj[1].value.isArray
    /\ argObj[2].value.isArray
    /\ argObj[2].value.items = <<<<"y">>, <<"x">>>>
    /\ Len(para.bind[1].val.items) = 3

\* the envelope has executed, reported a row count, and the count was checked
RowCountChecked ==
    /\ result.type = "object"
    /\ result.outBinds.irows.type = "number"
    /\ pc # "process"

\* C7: a reported row count of at most 100000 lets the request go on to parse
\* and send (it fails only if parse, streamToBuffer, send or close raises);
\* a row count of 100001 or more ends the request with a ProcedureError and
\* nothing is parsed or sent.
C7_RowCountCeiling ==
    RowCountChecked =>
        LET irows == result.outBinds.irows.val
        IN  /\ irows <= 100000 =>
                  /\ pc = "parse" \/ Called("parse")
                  /\ pc = "failed" => error.kind = "raw"
                  /\ pc \in {"close", "done"} => Called("send")
            /\ irows >= 100001 =>
                  /\ pc = "failed"
                  /\ error.kind = "ProcedureError"
                  /\ ~Called("parse")
                  /\ ~Called("send")

C7_Witness ==
    /\ RowCountChecked
    /\ result.outBinds.irows.val = 100000
    /\ pc = "done"
    /\ Called("send")

\* C8: when the upload fails, the request ends with a ProcedureError, the
\* target procedure is not executed and no response is sent.
C8_UploadFailureFatal ==
    upload = "failed" =>
        /\ ~Called("execute")
        /\ ~Called("send")
        /\ Terminated => (pc = "failed" /\ error.kind = "ProcedureError")

\* C9: when the validation call raises, the request ends with a RequestError,
\* before the large-object handle is created and before the target procedure
\* is executed.
C9_ValidationFailure ==
    requestValidRes.kind = "raise" =>
        /\ pc = "failed"
        /\ error.kind = "RequestError"
        /\ lob = "none"
        /\ ~Called("createLob")
        /\ ~Called("execute")

\* C10: when the execution of the envelope raises, the request ends with a
\* ProcedureError that carries the request's CGI mapping and the invocation
\* text and bindings of the call plan; the error of the database is not what
\* the caller receives.
C10_ExecuteFailure ==
    raisedAt # 0 =>
        /\ pc = "failed"
        /\ error.kind = "ProcedureError"
        /\ error.cgi = cgiObj
        /\ error.sql = para.sql
        /\ error.bind = para.bind
        /\ para # NoPara

C10_Witness ==
    /\ raisedAt = 5
    /\ pc = "failed"
    /\ Len(error.cgi) = 2
    /\ Len(error.bind) = 2

\* the characters of a bind-variable name
IdentChars ==
    {"a", "b", "c", "d", "e", "f", "g", "h", "i", "j", "k", "l", "m", "n", "o",
     "p", "q", "r", "s", "t", "u", "v", "w", "x", "y", "z", "A", "B", "_"}

RECURSIVE NameEnd(_, _)
\* last position of the run of name characters that starts at position i
NameEnd(text, i) ==
    IF i > Len(text) \/ text[i] \notin IdentChars THEN i - 1
    ELSE NameEnd(text, i + 1)

\* positions of the colons that introduce a placeholder
PlaceholderMarks(text) == {i \in 1..Len(text) : text[i] = ":"}

\* the placeholders an invocation text refers to
Placeholders(text) ==
    {SubSeq(text, i + 1, NameEnd(text, i + 1)) : i \in PlaceholderMarks(text)}

\* the keys of a bindings mapping
BindKeys(bind) == {bind[i].name : i \in DOMAIN bind}

EnvelopeKeys ==
    {<<"c", "g", "i", "c", "o", "u", "n", "t">>,
     <<"c", "g", "i", "n", "a", "m", "e", "s">>,
     <<"c", "g", "i", "v", "a", "l", "u", "e", "s">>,
     <<"h", "t", "b", "u", "f", "l", "e", "n">>,
     <<"f", "i", "l", "e", "T", "y", "p", "e">>,
     <<"f", "i", "l", "e", "S", "i", "z", "e">>,
     <<"f", "i", "l", "e", "B", "l", "o", "b">>,
     <<"l", "i", "n", "e", "s">>,
     <<"i", "r", "o", "w", "s">>}

\* C12: for every plan getProcedure returns, the keys of the plan's bindings
\* are none of the envelope's keys, so merging the plan into the envelope's
\* bindings overwrites no envelope entry and the merged bindings number the
\* envelope's plus the plan's.
C12_NoKeyCollision ==
    pc = "validate" =>
        LET envelope == EnvelopeBind(cgiObj)
            merged == ObjectAssign(envelope, para.bind)
        IN  /\ BindKeys(envelope) = EnvelopeKeys
            /\ Len(envelope) = 9
            /\ BindKeys(para.bind) \cap EnvelopeKeys = {}
            /\ Len(merged) = Len(envelope) + Len(para.bind)
            /\ \A i \in 1..Len(envelope) :
                  /\ merged[i].name = envelope[i].name
                  /\ merged[i].dir = envelope[i].dir
                  /\ merged[i].type = envelope[i].type

C12_Witness ==
    /\ VarPlanBuilt
    /\ Len(ObjectAssign(EnvelopeBind(cgiObj), para.bind)) = 11

\* the statements of the envelope, in the order the protocol fixes
EnvelopeOrder ==
    <<"dbms_session.modify_package_state", "owa.init_cgi_env", "htp.init",
      "htp.HTBUF_LEN", "procedure", "wpg_docload", "owa.get_page">>

\* C13: the database runs the envelope in the order package-state reset, CGI
\* init, output buffer init, line length 63, user procedure, download
\* detection, page retrieval, whatever the target procedure; when the user
\* procedure raises, neither download detection nor page retrieval runs and
\* one error comes back.
C13_EnvelopeOrder ==
    Called("execute") =>
        /\ Len(dbSteps) <= Len(EnvelopeOrder)
        /\ \A i \in DOMAIN dbSteps : dbSteps[i].stmt = EnvelopeOrder[i]
        /\ Len(dbSteps) >= 5 => dbSteps[5].text = para.sql
        /\ \E i \in DOMAIN bound :
              /\ bound[i].name = <<"h", "t", "b", "u", "f", "l", "e", "n">>
              /\ bound[i].val = 63
        /\ raisedAt = 0 => Len(dbSteps) = Len(EnvelopeOrder)
        /\ raisedAt # 0 => Len(dbSteps) = raisedAt
        /\ raisedAt = 5 =>
              /\ \A i \in DOMAIN dbSteps :
                    dbSteps[i].stmt \notin {"wpg_docload", "owa.get_page"}
              /\ result = Undefined
              /\ pc = "failed"
              /\ error.kind = "ProcedureError"

C13_Witness ==
    /\ Called("execute")
    /\ raisedAt = 0
    /\ Len(dbSteps) = 7
    /\ pc = "done"
    /\ pageComponents.file.fileBlob = [type |-> "buffer"]

\* number of times the call has been made
Calls(name) == Cardinality({i \in DOMAIN log : log[i] = name})

\* the first call was made before the second
Before(first, second) ==
    \E i, j \in DOMAIN log : i < j /\ log[i] = first /\ log[j] = second

\* C15: in fixed-argument mode a catalog lookup that raises or returns a
\* malformed result ends the request with a RequestError; the lookup is made
\* once, the validation hook is not run, no large-object handle is created,
\* the target procedure is not executed and nothing is sent.
C15_CatalogFailure ==
    /\ Calls("getArguments") <= 1
    /\ catalogRes \in {"raise", "malformed"} =>
          /\ pc = "failed"
          /\ error.kind = "RequestError"
          /\ Calls("getArguments") = 1
          /\ ~Called("validate")
          /\ requestValidRes.kind = "none"
          /\ ~Called("createLob")
          /\ lob = "none"
          /\ ~Called("execute")
          /\ dbSteps = <<>>
          /\ ~Called("parse")
          /\ ~Called("send")

C15_Witness ==
    /\ catalogRes = "malformed"
    /\ Truthy(options.requestValidation)
    /\ pc = "failed"

\* C16: send is called once when no stage raised and not at all when a stage
\* before it raised, and always after parse has produced the model and the
\* file-download fields have been attached to it.
C16_SentOnce ==
    /\ []( /\ Calls("send") <= 1
           /\ pc \in {"close", "done"} => Calls("send") = 1
           /\ (pc = "failed" /\ log[Len(log)] \notin {"send", "close"}) =>
                 ~Called("send")
           /\ Called("send") =>
                 /\ Before("parse", "send")
                 /\ pageComponents.type = "object"
                 /\ pageComponents.file.fileType = result.outBinds.fileType
                 /\ pageComponents.file.fileSize = result.outBinds.fileSize )
    /\ [][upload = "failed" => Calls("send")' = Calls("send")]_vars

\* the upload table is configured and not empty
UploadTableConfigured ==
    options.doctable.type = "string" /\ options.doctable.val # <<>>

\* C17: with a configured non-empty upload table uploadFiles is called before
\* the validation hook runs, so a request that is denied has still started
\* its upload; without an upload table uploadFiles is never called.
C17_UploadBeforeValidation ==
    /\ (UploadTableConfigured /\ pc # "upload") => Called("uploadFiles")
    /\ (UploadTableConfigured /\ Called("validate")) =>
          Before("uploadFiles", "validate")
    /\ (UploadTableConfigured /\ Denied) =>
          (Called("uploadFiles") /\ upload # "idle")
    /\ ~UploadTableConfigured => (~Called("uploadFiles") /\ upload = "idle")

C17_Witness ==
    /\ UploadTableConfigured
    /\ Denied
    /\ filesToUpload = 1
    /\ Before("uploadFiles", "validate")
    /\ pc = "done"

\* a validation function is configured
ValidationConfigured ==
    options.requestValidation.type = "string"
        /\ options.requestValidation.val # <<>>

\* the validation call returned out-binds whose ret is exactly 1
ValidationSaidYes ==
    /\ requestValidRes.kind = "ok"
    /\ requestValidRes.outBinds.type = "object"
    /\ requestValidRes.outBinds.ret.type = "number"
    /\ requestValidRes.outBinds.ret.val = 1

\* C18: the target procedure is executed only if no validation function is
\* configured or the validation call returned ret = 1; any other result of a
\* configured validation gives the denial response, and a validation call
\* that raises gives an error; neither executes the target procedure.
C18_FailClosed ==
    /\ Called("execute") => (~ValidationConfigured \/ ValidationSaidYes)
    /\ (ValidationConfigured /\ requestValidRes.kind = "ok"
            /\ ~ValidationSaidYes) =>
          /\ validOperation = FALSE
          /\ dbSteps = <<>>
          /\ result.type = "object" =>
                result.outBinds.lines = <<"No access to this.">>
          /\ Called("parse") => pageContent = "No access to this."
    /\ (ValidationConfigured /\ requestValidRes.kind = "raise") =>
          /\ pc = "failed"
          /\ error.kind # "none"
          /\ dbSteps = <<>>
    /\ (ValidationConfigured /\ ValidationSaidYes) => validOperation = TRUE
    /\ (~ValidationConfigured /\ pc \notin {"upload", "plan", "validate"}
            /\ catalogRes \notin {"raise", "malformed"}
            /\ ~(pc = "failed" /\ log[Len(log)] = "uploadFiles")) =>
          validOperation = TRUE

C18_Witness ==
    /\ ValidationConfigured
    /\ requestValidRes.kind = "ok"
    /\ requestValidRes.outBinds.type = "object"
    /\ requestValidRes.outBinds.ret.type = "number"
    /\ requestValidRes.outBinds.ret.val = 2
    /\ pc = "done"

\* the request takes the fixed-argument branch
FixedRequest ==
    /\ ~(options.pathAlias.type = "object" /\ options.pathAlias.alias = procedure)
    /\ procedure[1] # "!"

\* C19: for a fixed-argument request with a validation function configured
\* the catalog lookup is made before the validation hook runs: a request that
\* validation denies has made the lookup, acquires a large-object handle and
\* releases it on the normal path, and a failing lookup ends the request
\* with a RequestError, not with the denial response.
C19_PlanBeforeValidation ==
    (FixedRequest /\ ValidationConfigured) =>
        /\ Called("validate") =>
              (Before("getArguments", "validate") /\ catalogRes = "ok")
        /\ Denied =>
              /\ Called("getArguments")
              /\ pc # "createLob" => Before("validate", "createLob")
              /\ pc \in {"execute", "process", "parse", "send", "close"} =>
                    lob = "open"
              /\ pc = "done" => lob = "closed"
        /\ catalogRes \in {"raise", "malformed"} =>
              /\ pc = "failed"
              /\ error.kind = "RequestError"
              /\ ~Called("validate")
              /\ result = Undefined
              /\ pageContent = ""

C19_Witness ==
    /\ FixedRequest
    /\ ValidationConfigured
    /\ Denied
    /\ Called("getArguments")
    /\ lob = "closed"
    /\ pc = "done"

====
